---- MODULE Spec2Model ----
(***************************************************************************)
(* A model of ftp-deploy's reconciliation-and-dispatch engine:             *)
(*   - FTPSyncProvider (src/src/syncProvider.ts): per-record operations    *)
(*     and the sequential / multi-threaded application of a diff;          *)
(*   - Threading (src/src/syncProvider.ts, lines 280-382): the worker      *)
(*     pool, its task queue and its message handlers;                      *)
(*   - the session worker (src/src/worker.ts).                             *)
(* Paths are strings, modelled as sequences of one-character strings.      *)
(***************************************************************************)
EXTENDS Integers, Sequences, FiniteSets, TLC

(* ---------------------------------------------------------------- bounds *)
MaxWorkers == 2
MaxFailures == 1
MaxTasks == 4
MaxBatch == 3
MaxDeployWorkers == 1
MaxAge == 2
MaxTicks == 1
MaxOps == 2

(* --------------------------------------------------------------- strings *)
Range(s) == {s[i] : i \in DOMAIN s}

RECURSIVE SplitAcc(_, _, _)
SplitAcc(str, cur, acc) ==
    IF str = <<>> THEN Append(acc, cur)
    ELSE IF Head(str) = "/" THEN SplitAcc(Tail(str), <<>>, Append(acc, cur))
    ELSE SplitAcc(Tail(str), Append(cur, Head(str)), acc)

\* String.prototype.split("/")
Split(str) == SplitAcc(str, <<>>, <<>>)

RECURSIVE Join(_)
\* Array.prototype.join("/")
Join(parts) ==
    IF parts = <<>> THEN <<>>
    ELSE IF Len(parts) = 1 THEN parts[1]
    ELSE parts[1] \o <<"/">> \o Join(Tail(parts))

\* item.name.split('/').slice(0, -1).join('/')
FolderNameOf(name) == Join(SubSeq(Split(name), 1, Len(Split(name)) - 1))

\* item.name.split('/').length == 1
IsTopLevel(name) == Len(Split(name)) = 1

\* getFileBreadcrumbs: null is modelled by the empty sequence
getFileBreadcrumbs(fullPath) ==
    LET pathSplit == Split(fullPath)
        file == pathSplit[Len(pathSplit)]
        rest == SubSeq(pathSplit, 1, Len(pathSplit) - 1)
        folders == SelectSeq(rest, LAMBDA folderName : folderName # <<>>)
    IN [folders |-> folders, file |-> file]

\* the components of p are a prefix of the components of q
IsPathPrefix(p, q) ==
    LET sp == Split(p)
        sq == Split(q)
    IN Len(sp) <= Len(sq) /\ SubSeq(sq, 1, Len(sp)) = sp

(* --------------------------------------------------------------- records *)
StateName == <<"s">>

FolderA == [type |-> "folder", name |-> <<"a">>]
FileAX == [type |-> "file", name |-> <<"a", "/", "x">>]
FileAY == [type |-> "file", name |-> <<"a", "/", "y">>]
FileS == [type |-> "file", name |-> StateName]
FileT == [type |-> "file", name |-> <<"t">>]

\* every record a snapshot can hold, in the diff engine's (name) order
Universe == <<FolderA, FileAX, FileAY, FileS, FileT>>

Records == Range(Universe)

Actions == {"upload", "replace", "delete"}

AllTasks == [action : Actions, record : Records]

\* a snapshot lists the folder of every file it lists
WellFormed(present) ==
    \A r \in present :
        (r.type = "file" /\ ~IsTopLevel(r.name)) =>
            \E f \in present : f.type = "folder" /\ f.name = FolderNameOf(r.name)

LocalSnapshots == {l \in SUBSET Records : WellFormed(l)}

\* the server snapshot relative to a local one: 0 absent, 1 same content as
\* the local file, 2 other content
ServerSnapshots(l) ==
    {s \in [Records -> 0..2] :
        /\ WellFormed({r \in Records : s[r] # 0})
        /\ \A r \in Records : s[r] = 2 => (r.type = "file" /\ r \in l)}

\* the diff engine (HashDiff.getDiffs), an external collaborator
getDiffs(l, s) ==
    [upload |-> SelectSeq(Universe, LAMBDA r : r \in l /\ s[r] = 0),
     replace |-> SelectSeq(Universe, LAMBDA r : r \in l /\ s[r] = 2),
     delete |-> SelectSeq(Universe, LAMBDA r : r \notin l /\ s[r] # 0)]

EmptyDiffs == [upload |-> <<>>, replace |-> <<>>, delete |-> <<>>]

(* ------------------------------------------------------------- variables *)
VARIABLES
    numWorkers,     \* Threading.numWorkers; 0: sequential mode, no pool
    dryRun,         \* FTPSyncProvider.dryRun
    local,          \* the local snapshot L
    diffs,          \* the DiffResult being applied
    remote,         \* the remote tree: record -> 0 absent, 1 local content, 2 other
    pc,             \* position of the main context
    ph,             \* loop of the main context
    fi,             \* index in that loop
    failed,         \* an error reached the deployment boundary
    taskQueue,      \* Threading.taskQueue
    idleWorkers,    \* Threading.idleWorkers
    activeTasks,    \* Threading.activeTasks
    workers,        \* Threading.workers
    wstatus,        \* per worker: "connecting", "up", "exited"
    winbox,         \* per worker: newTask messages posted and not yet processed
    wmsg,           \* per worker: reports posted and not yet handled by main
    mainLog,        \* history: operations issued on the main session, with their outcome
    enqueued,       \* history: task -> times passed to addTasks
    executed,       \* history: task -> times executed to success by a worker
    completed,      \* history: task -> taskCompleted reports handled
    failedTasks,    \* history: tasks with a taskFailed report handled
    inflight,       \* history: per worker, tasks handed and not yet reported
    discarded,      \* history: workers terminated after a taskFailed report
    failures,       \* history: failures injected so far
    stateUploads,   \* history: uploads of the state file
    waiting,        \* history: tasks appended to taskQueue and not yet handed to a
                    \* worker, oldest first
    outOfOrder,     \* history: a task was handed out while an older one waited
    cleanSlate,     \* args["dangerous-clean-slate"]
    serverDir,      \* the remote root args["server-dir"] exists
    mainSession,    \* the main client: "new", "up", "failed"
    now,            \* Date.now()
    reconnectInterval,   \* args["reconnect-timeout"], the max age of a session
    lastConnectionTime,  \* per session: lastConnectionTimeRef.time (main, 0) and
                         \* the worker's lastConnectionTime
    connectedAt,    \* history: per session, when it was last connected or refreshed
    trace,          \* history: one entry per action handled by a session
    cwd,            \* per session: the working directory of its client
    commands,       \* history: the remote commands of the last createFolder or
                    \* getServerFiles
    closedOnExit    \* history: the workers that had acted on the exit signal
                    \* when stop completed

\* the deployment before the diff is applied
deployVars == <<cleanSlate, serverDir, mainSession>>

\* session age, refresh and working directory
clockVars == <<now, reconnectInterval, lastConnectionTime, connectedAt, trace,
               cwd, commands>>

\* the sessions
sessVars == <<clockVars, closedOnExit>>

vars == <<numWorkers, dryRun, local, diffs, remote, pc, ph, fi, failed,
          taskQueue, idleWorkers, activeTasks, workers, wstatus, winbox, wmsg,
          mainLog, enqueued, executed, completed, failedTasks, inflight,
          discarded, failures, stateUploads, waiting, outOfOrder, deployVars,
          sessVars>>

configVars == <<numWorkers, dryRun, local, diffs>>

WorkerIds == 1..(MaxWorkers + 1)

(* ----------------------------------------------------- working directory *)
\* a directory is the sequence of the names on the way from "/" to it.
\* LoginDir is where the server puts a client that has just logged in
LoginDir == <<>>

\* args["server-dir"], the configured remote root, as a directory
ServerPath == <<<<"w">>>>

(* ------------------------------------------------- remote tree primitives *)
\* client.ensureDir(folder): creates every missing folder along the path
EnsureDirTree(tree, folder) ==
    [r \in Records |->
        IF r.type = "folder" /\ IsPathPrefix(r.name, folder) THEN 1 ELSE tree[r]]

\* client.uploadFrom needs the folder of the remote path to exist
UploadPossible(tree, name) ==
    \/ IsTopLevel(name)
    \/ \E f \in Records :
        f.type = "folder" /\ f.name = FolderNameOf(name) /\ tree[f] # 0

UploadTree(tree, name) ==
    [r \in Records |-> IF r.type = "file" /\ r.name = name THEN 1 ELSE tree[r]]

\* client.remove
RemoveTree(tree, name) ==
    [r \in Records |-> IF r.type = "file" /\ r.name = name THEN 0 ELSE tree[r]]

\* client.removeDir fails when it cannot enter the directory
RemoveDirPossible(tree, name) ==
    \E f \in Records : f.type = "folder" /\ f.name = name /\ tree[f] # 0

\* client.removeDir removes the directory and everything below it
RemoveDirTree(tree, name) ==
    [r \in Records |-> IF IsPathPrefix(name, r.name) THEN 0 ELSE tree[r]]

(* ------------------------------------------------------- FTPSyncProvider *)
\* createFolder: [ok, tree]
createFolder(tree, folderPath) ==
    IF dryRun THEN [ok |-> TRUE, tree |-> tree]
    ELSE LET path == getFileBreadcrumbs(folderPath \o <<"/">>)
         IN IF path.folders = <<>> THEN [ok |-> TRUE, tree |-> tree]
            ELSE [ok |-> TRUE, tree |-> EnsureDirTree(tree, Join(path.folders))]

\* client.remove(filePath): the server answers with the not-found / no-access
\* code when the file is not there
clientRemove(tree, filePath) ==
    IF \E r \in Records : r.type = "file" /\ r.name = filePath /\ tree[r] # 0
    THEN [code |-> "ok", tree |-> RemoveTree(tree, filePath)]
    ELSE [code |-> "FileNotFoundOrNoAccess", tree |-> tree]

\* faulty variant: the not-found answer is rethrown like any other error
removeFileRethrows(tree, filePath) ==
    IF dryRun THEN [ok |-> TRUE, tree |-> tree]
    ELSE LET res == clientRemove(tree, filePath)
         IN [ok |-> res.code = "ok", tree |-> res.tree]

\* removeFile: a missing file is the benign FileNotFoundOrNoAccess skip
removeFile(tree, filePath) ==
    IF dryRun THEN [ok |-> TRUE, tree |-> tree]
    ELSE LET res == clientRemove(tree, filePath)
         IN [ok |-> res.code \in {"ok", "FileNotFoundOrNoAccess"}, tree |-> res.tree]

removeFolder(tree, folderPath) ==
    IF dryRun THEN [ok |-> TRUE, tree |-> tree]
    ELSE IF RemoveDirPossible(tree, folderPath)
         THEN [ok |-> TRUE, tree |-> RemoveDirTree(tree, folderPath)]
         ELSE [ok |-> FALSE, tree |-> tree]

uploadFile(tree, filePath) ==
    IF dryRun THEN [ok |-> TRUE, tree |-> tree]
    ELSE IF UploadPossible(tree, filePath)
         THEN [ok |-> TRUE, tree |-> UploadTree(tree, filePath)]
         ELSE [ok |-> FALSE, tree |-> tree]

\* syncRecordToServer: the dispatch table over (action, record.type)
syncRecordToServer(tree, record, action) ==
    CASE action = "upload" ->
            IF record.type = "folder" THEN createFolder(tree, record.name)
            ELSE uploadFile(tree, record.name)
      [] action = "delete" ->
            IF record.type = "folder" THEN removeFolder(tree, record.name)
            ELSE removeFile(tree, record.name)
      [] action = "replace" -> uploadFile(tree, record.name)
      [] OTHER -> [ok |-> TRUE, tree |-> tree]

(* -------------------------------------------------------------- Threading *)
RECURSIVE RemoveFirst(_, _)
\* q without its first occurrence of x
RemoveFirst(q, x) ==
    IF q = <<>> THEN <<>>
    ELSE IF Head(q) = x THEN Tail(q)
    ELSE <<Head(q)>> \o RemoveFirst(Tail(q), x)

\* the dispatcher's state, threaded through its synchronous calls
Pool ==
    [taskQueue |-> taskQueue, idleWorkers |-> idleWorkers,
     activeTasks |-> activeTasks, winbox |-> winbox,
     inflight |-> inflight, enqueued |-> enqueued,
     waiting |-> waiting, outOfOrder |-> outOfOrder]

SetPool(p) ==
    /\ taskQueue' = p.taskQueue
    /\ idleWorkers' = p.idleWorkers
    /\ activeTasks' = p.activeTasks
    /\ winbox' = p.winbox
    /\ inflight' = p.inflight
    /\ enqueued' = p.enqueued
    /\ waiting' = p.waiting
    /\ outOfOrder' = p.outOfOrder

\* faulty variant: the head idle worker is given the task and stays in the idle list
processNextTaskKeepsIdle(p) ==
    IF Len(p.taskQueue) > 0 /\ Len(p.idleWorkers) > 0
    THEN LET task == Head(p.taskQueue)
             worker == Head(p.idleWorkers)
         IN [p EXCEPT !.taskQueue = Tail(@),
                      !.winbox[worker] = Append(@, task),
                      !.inflight[worker] = @ + 1,
                      !.waiting = RemoveFirst(@, task),
                      !.outOfOrder = @ \/ Head(p.waiting) # task]
    ELSE p

\* faulty variant: the task appended last is handed out first
processNextTaskTakesLast(p) ==
    IF Len(p.taskQueue) > 0 /\ Len(p.idleWorkers) > 0
    THEN LET task == p.taskQueue[Len(p.taskQueue)]
             worker == Head(p.idleWorkers)
         IN [p EXCEPT !.taskQueue = SubSeq(@, 1, Len(@) - 1),
                      !.idleWorkers = Tail(@),
                      !.winbox[worker] = Append(@, task),
                      !.inflight[worker] = @ + 1,
                      !.waiting = RemoveFirst(@, task),
                      !.outOfOrder = @ \/ Head(p.waiting) # task]
    ELSE p

\* processNextTask: hands the head task to the head idle worker
processNextTask(p) ==
    IF Len(p.taskQueue) > 0 /\ Len(p.idleWorkers) > 0
    THEN LET task == Head(p.taskQueue)
             worker == Head(p.idleWorkers)
         IN [p EXCEPT !.taskQueue = Tail(@),
                      !.idleWorkers = Tail(@),
                      !.winbox[worker] = Append(@, task),
                      !.inflight[worker] = @ + 1,
                      !.waiting = RemoveFirst(@, task),
                      !.outOfOrder = @ \/ Head(p.waiting) # task]
    ELSE p

\* addTasks(tasks, action)
addTasks(p, tasks, action) ==
    LET batch == [i \in 1..Len(tasks) |-> [action |-> action, record |-> tasks[i]]]
        p1 == [p EXCEPT
                !.taskQueue = @ \o batch,
                !.waiting = @ \o batch,
                !.activeTasks = @ + Len(tasks),
                !.enqueued = [t \in AllTasks |->
                    @[t] + Cardinality({i \in DOMAIN batch : batch[i] = t})]]
    IN processNextTask(p1)

\* faulty variant: the wait ignores the active-task counter
waitForAllTasksQueueOnly(p) == Len(p.taskQueue) > 0

\* the loop condition of waitForAllTasks
waitForAllTasksPending(p) == p.activeTasks > 0 \/ Len(p.taskQueue) > 0

\* faulty variant: the worker that completed is not put back in the idle list
onTaskCompletedNoIdle(p, worker) ==
    processNextTask([p EXCEPT !.activeTasks = @ - 1,
                              !.inflight[worker] = @ - 1])

\* faulty variant: no dispatch is attempted when a worker completes
onTaskCompletedNoDispatch(p, worker) ==
    [p EXCEPT !.idleWorkers = Append(@, worker),
              !.activeTasks = @ - 1,
              !.inflight[worker] = @ - 1]

\* worker.on('message') for msg.type === 'taskCompleted'
onTaskCompleted(p, worker) ==
    processNextTask([p EXCEPT !.idleWorkers = Append(@, worker),
                              !.activeTasks = @ - 1,
                              !.inflight[worker] = @ - 1])

\* faulty variant: the worker that failed is put back in the idle list
onTaskFailedReusesWorker(p, worker, task) ==
    [p EXCEPT !.activeTasks = (@ - 1) + 1,
              !.taskQueue = Append(@, task),
              !.waiting = Append(@, task),
              !.idleWorkers = Append(@, worker),
              !.inflight[worker] = @ - 1]

\* faulty variant: the requeued task is not counted again
onTaskFailedNoIncrement(p, worker, task) ==
    [p EXCEPT !.activeTasks = @ - 1,
              !.taskQueue = Append(@, task),
              !.waiting = Append(@, task),
              !.inflight[worker] = @ - 1]

\* worker.on('message') for msg.type === 'taskFailed': the task is requeued
\* and the worker is terminated
onTaskFailed(p, worker, task) ==
    [p EXCEPT !.activeTasks = (@ - 1) + 1,
              !.taskQueue = Append(@, task),
              !.waiting = Append(@, task),
              !.inflight[worker] = @ - 1]

\* worker.postMessage('exit') followed at once by worker.terminate(): whether
\* the worker handles the message (client.close(), process.exit(0)) before
\* the thread is stopped is a race. closed and running are sets of workers;
\* the result is the set of the possible values of closed afterwards
terminateAfterExit(closed, running) ==
    {closed \cup acted : acted \in SUBSET running}

\* the main context is at a suspension point, where message handlers run
MainSuspended == pc \in {"mt", "wait", "state", "pool", "poolwait", "returned"}

\* a taskCompleted report reaches the main context
HandleTaskCompleted(w) ==
    /\ MainSuspended
    /\ wmsg[w] # <<>>
    /\ Head(wmsg[w]).type = "taskCompleted"
    /\ SetPool(onTaskCompleted(Pool, w))
    /\ wmsg' = [wmsg EXCEPT ![w] = Tail(@)]
    /\ completed' = [completed EXCEPT ![Head(wmsg[w]).task] = @ + 1]
    /\ UNCHANGED <<configVars, deployVars, sessVars, remote, pc, ph, fi, failed, workers, wstatus,
                   mainLog, executed, failedTasks, discarded, failures,
                   stateUploads>>

\* a taskFailed report reaches the main context
HandleTaskFailed(w) ==
    /\ MainSuspended
    /\ wmsg[w] # <<>>
    /\ Head(wmsg[w]).type = "taskFailed"
    /\ SetPool(onTaskFailed(Pool, w, Head(wmsg[w]).task))
    /\ wmsg' = [wmsg EXCEPT ![w] = Tail(@)]
    /\ wstatus' = [wstatus EXCEPT ![w] = "exited"]
    /\ failedTasks' = failedTasks \cup {Head(wmsg[w]).task}
    /\ discarded' = discarded \cup {w}
    /\ UNCHANGED <<configVars, deployVars, sessVars, remote, pc, ph, fi, failed, workers, mainLog,
                   executed, completed, failures, stateUploads>>

(* ---------------------------------------------------------------- worker *)
\* the worker's initial establishConnection succeeds
WorkerConnect(w) ==
    /\ w \in Range(workers)
    /\ wstatus[w] = "connecting"
    /\ wstatus' = [wstatus EXCEPT ![w] = "up"]
    /\ lastConnectionTime' = [lastConnectionTime EXCEPT ![w] = now]
    /\ connectedAt' = [connectedAt EXCEPT ![w] = now]
    /\ cwd' = [cwd EXCEPT ![w] = LoginDir]
    /\ UNCHANGED <<configVars, deployVars, now, reconnectInterval, trace, commands, closedOnExit, remote, pc, ph, fi, failed, taskQueue,
                   idleWorkers, activeTasks, workers, winbox, wmsg, mainLog,
                   enqueued, waiting, outOfOrder, executed, completed, failedTasks, inflight,
                   discarded, failures, stateUploads>>

\* the worker's initial establishConnection fails: process.exit(1)
WorkerConnectFail(w) ==
    /\ w \in Range(workers)
    /\ wstatus[w] = "connecting"
    /\ failures < MaxFailures
    /\ failures' = failures + 1
    /\ wstatus' = [wstatus EXCEPT ![w] = "exited"]
    /\ UNCHANGED <<configVars, deployVars, sessVars, remote, pc, ph, fi, failed, taskQueue,
                   idleWorkers, activeTasks, workers, winbox, wmsg, mainLog,
                   enqueued, waiting, outOfOrder, executed, completed, failedTasks, inflight,
                   discarded, stateUploads>>

\* processTask: the action succeeds and taskCompleted is posted
WorkerTaskCompleted(w) ==
    /\ wstatus[w] = "up"
    /\ winbox[w] # <<>>
    /\ LET task == Head(winbox[w])
           res == syncRecordToServer(remote, task.record, task.action)
       IN /\ res.ok
          /\ remote' = res.tree
          /\ wmsg' = [wmsg EXCEPT ![w] = Append(@, [type |-> "taskCompleted", task |-> task])]
          /\ executed' = [executed EXCEPT ![task] = @ + 1]
    /\ winbox' = [winbox EXCEPT ![w] = Tail(@)]
    /\ UNCHANGED <<configVars, deployVars, sessVars, pc, ph, fi, failed, taskQueue, idleWorkers,
                   activeTasks, workers, wstatus, mainLog, enqueued, waiting, outOfOrder, completed,
                   failedTasks, inflight, discarded, failures, stateUploads>>

\* processTask: the action throws and taskFailed is posted with the task
WorkerTaskFailed(w) ==
    /\ wstatus[w] = "up"
    /\ winbox[w] # <<>>
    /\ ~dryRun
    /\ LET task == Head(winbox[w])
           res == syncRecordToServer(remote, task.record, task.action)
       IN /\ \/ /\ ~res.ok
                /\ failures' = failures
             \/ /\ failures < MaxFailures
                /\ failures' = failures + 1
          /\ wmsg' = [wmsg EXCEPT ![w] = Append(@, [type |-> "taskFailed", task |-> task])]
    /\ winbox' = [winbox EXCEPT ![w] = Tail(@)]
    /\ UNCHANGED <<configVars, deployVars, sessVars, remote, pc, ph, fi, failed, taskQueue,
                   idleWorkers, activeTasks, workers, wstatus, mainLog,
                   enqueued, waiting, outOfOrder, executed, completed, failedTasks, inflight,
                   discarded, stateUploads>>

\* processTask: ensureFreshConnection returns false and processTask returns
\* without posting a report
WorkerRefreshFailed(w) ==
    /\ wstatus[w] = "up"
    /\ winbox[w] # <<>>
    /\ failures < MaxFailures
    /\ failures' = failures + 1
    /\ winbox' = [winbox EXCEPT ![w] = Tail(@)]
    /\ UNCHANGED <<configVars, deployVars, sessVars, remote, pc, ph, fi, failed, taskQueue,
                   idleWorkers, activeTasks, workers, wstatus, wmsg, mainLog,
                   enqueued, waiting, outOfOrder, executed, completed, failedTasks, inflight,
                   discarded, stateUploads>>

(* --------------------------------------------- syncLocalToServerMultiThread *)
\* faulty variant: the state file is not filtered out of the upload set
uploadFilesWithState == SelectSeq(diffs.upload, LAMBDA item : item.type = "file")

uploadFiles == SelectSeq(diffs.upload, LAMBDA item : item.type = "file" /\ item.name # StateName)

topLevelFiles == SelectSeq(uploadFiles, LAMBDA item : IsTopLevel(item.name))

allFolders == SelectSeq(diffs.upload, LAMBDA item : item.type = "folder")

replaceFiles == SelectSeq(diffs.replace, LAMBDA item : item.type = "file" /\ item.name # StateName)

deleteFiles == SelectSeq(diffs.delete, LAMBDA item : item.type = "file")

deleteFolders == SelectSeq(diffs.delete, LAMBDA item : item.type = "folder")

\* filesByFolder.get(folderName) || []
filesByFolder(folderName) ==
    SelectSeq(uploadFiles, LAMBDA item : FolderNameOf(item.name) = folderName)

\* faulty variant: every upload file is enqueued before any folder is created
firstBatchAllFiles == uploadFiles

\* the batch enqueued before the folder loop starts
firstBatch == topLevelFiles

\* the files enqueued once a folder of the upload set has been created
filesInFolder(folder) == filesByFolder(folder.name)

\* the list the main context walks in loop ph of the parallel path
MTList(k) == IF k = 1 THEN allFolders ELSE deleteFolders

MTAction(k) == IF k = 1 THEN "upload" ELSE "delete"

\* the synchronous code from the end of one awaited folder operation to the
\* next suspension point: the next folder, or the last two addTasks calls and
\* waitForAllTasks
MTAdvance(p, k, i) ==
    IF k = 1 /\ i <= Len(allFolders) THEN [pool |-> p, pc |-> "mt", ph |-> 1, fi |-> i]
    ELSE IF k = 1 /\ Len(deleteFolders) > 0 THEN [pool |-> p, pc |-> "mt", ph |-> 2, fi |-> 1]
    ELSE IF k = 2 /\ i <= Len(deleteFolders) THEN [pool |-> p, pc |-> "mt", ph |-> 2, fi |-> i]
    ELSE [pool |-> addTasks(addTasks(p, replaceFiles, "replace"), deleteFiles, "delete"),
          pc |-> "wait", ph |-> 3, fi |-> 1]

SetMain(m) ==
    /\ SetPool(m.pool)
    /\ pc' = m.pc
    /\ ph' = m.ph
    /\ fi' = m.fi

\* entry: addTasks(topLevelFiles, 'upload'), then up to the first await
MTStart ==
    /\ pc = "start"
    /\ numWorkers > 0
    /\ SetMain(MTAdvance(addTasks(Pool, firstBatch, "upload"), 1, 1))
    /\ UNCHANGED <<configVars, deployVars, sessVars, remote, failed, workers, wstatus, wmsg, mainLog,
                   executed, completed, failedTasks, discarded, failures,
                   stateUploads>>

\* one awaited syncRecordToServer of a folder on the main session completes;
\* for a created folder its files are then enqueued
MTFolderDone ==
    /\ pc = "mt"
    /\ LET record == MTList(ph)[fi]
           res == syncRecordToServer(remote, record, MTAction(ph))
           p1 == IF ph = 1 /\ Len(filesInFolder(record)) > 0
                 THEN addTasks(Pool, filesInFolder(record), "upload")
                 ELSE Pool
       IN /\ res.ok
          /\ remote' = res.tree
          /\ mainLog' = Append(mainLog, [action |-> MTAction(ph), record |-> record, ok |-> TRUE])
          /\ SetMain(MTAdvance(p1, ph, fi + 1))
    /\ UNCHANGED <<configVars, deployVars, sessVars, failed, workers, wstatus, wmsg, executed,
                   completed, failedTasks, discarded, failures, stateUploads>>

\* the awaited operation throws: the error leaves syncLocalToServerMultiThread
MTFolderThrows ==
    /\ pc = "mt"
    /\ LET record == MTList(ph)[fi]
           res == syncRecordToServer(remote, record, MTAction(ph))
       IN \/ /\ ~res.ok
             /\ failures' = failures
          \/ /\ failures < MaxFailures
             /\ failures' = failures + 1
    /\ mainLog' = Append(mainLog, [action |-> MTAction(ph), record |-> MTList(ph)[fi], ok |-> FALSE])
    /\ pc' = "stop"
    /\ failed' = TRUE
    /\ UNCHANGED <<configVars, deployVars, sessVars, remote, ph, fi, taskQueue, idleWorkers,
                   activeTasks, workers, wstatus, winbox, wmsg, enqueued, waiting, outOfOrder,
                   executed, completed, failedTasks, inflight, discarded,
                   stateUploads>>

\* waitForAllTasks returns; the state file upload starts unless dry-run
MTWaitReturns ==
    /\ pc = "wait"
    /\ ~waitForAllTasksPending(Pool)
    /\ pc' = IF dryRun THEN "stop" ELSE "state"
    /\ UNCHANGED <<configVars, deployVars, sessVars, remote, ph, fi, failed, taskQueue, idleWorkers,
                   activeTasks, workers, wstatus, winbox, wmsg, mainLog,
                   enqueued, waiting, outOfOrder, executed, completed, failedTasks, inflight,
                   discarded, failures, stateUploads>>

\* where the main context goes when diff application ends
AfterSync == IF numWorkers > 0 THEN "stop" ELSE "done"

\* client.uploadFrom(localPath + stateName, stateName) completes
StateUploadDone ==
    /\ pc = "state"
    /\ remote' = UploadTree(remote, StateName)
    /\ stateUploads' = stateUploads + 1
    /\ mainLog' = Append(mainLog, [action |-> "state", record |-> FileS, ok |-> TRUE])
    /\ pc' = AfterSync
    /\ UNCHANGED <<configVars, deployVars, sessVars, ph, fi, failed, taskQueue, idleWorkers,
                   activeTasks, workers, wstatus, winbox, wmsg, enqueued, waiting, outOfOrder,
                   executed, completed, failedTasks, inflight, discarded,
                   failures>>

\* the state file upload throws
StateUploadThrows ==
    /\ pc = "state"
    /\ failures < MaxFailures
    /\ failures' = failures + 1
    /\ failed' = TRUE
    /\ mainLog' = Append(mainLog, [action |-> "state", record |-> FileS, ok |-> FALSE])
    /\ pc' = AfterSync
    /\ UNCHANGED <<configVars, deployVars, sessVars, remote, ph, fi, taskQueue, idleWorkers,
                   activeTasks, workers, wstatus, winbox, wmsg,
                   enqueued, waiting, outOfOrder, executed, completed, failedTasks, inflight,
                   discarded, stateUploads>>

\* Threading.stop in deploy's finally: every worker is terminated. Which of
\* the workers, those discarded after a taskFailed report included, acted on
\* the exit signal first is recorded here
ThreadingStop ==
    /\ pc = "stop"
    /\ workers' = <<>>
    /\ wstatus' = [w \in WorkerIds |-> "exited"]
    /\ closedOnExit' \in terminateAfterExit(closedOnExit,
                            {w \in Range(workers) : wstatus[w] = "up" \/ w \in discarded})
    /\ pc' = "done"
    /\ UNCHANGED <<configVars, deployVars, clockVars, remote, ph, fi, failed, taskQueue, idleWorkers,
                   activeTasks, winbox, wmsg, mainLog, enqueued, waiting, outOfOrder, executed,
                   completed, failedTasks, inflight, discarded, failures,
                   stateUploads>>

(* ------------------------------------------------------ syncLocalToServer *)
\* faulty variant: files are uploaded before the folders are created
SeqListFilesFirst(k) ==
    CASE k = 2 -> SelectSeq(diffs.upload, LAMBDA item : item.type = "folder")
      [] k = 1 -> SelectSeq(SelectSeq(diffs.upload, LAMBDA item : item.type = "file"),
                            LAMBDA item : item.name # StateName)
      [] k = 3 -> SelectSeq(SelectSeq(diffs.replace, LAMBDA item : item.type = "file"),
                            LAMBDA item : item.name # StateName)
      [] k = 4 -> SelectSeq(diffs.delete, LAMBDA item : item.type = "file")
      [] k = 5 -> SelectSeq(diffs.delete, LAMBDA item : item.type = "folder")
      [] OTHER -> <<>>

\* the five loops of the sequential path, in the order of the code
SeqList(k) ==
    CASE k = 1 -> SelectSeq(diffs.upload, LAMBDA item : item.type = "folder")
      [] k = 2 -> SelectSeq(SelectSeq(diffs.upload, LAMBDA item : item.type = "file"),
                            LAMBDA item : item.name # StateName)
      [] k = 3 -> SelectSeq(SelectSeq(diffs.replace, LAMBDA item : item.type = "file"),
                            LAMBDA item : item.name # StateName)
      [] k = 4 -> SelectSeq(diffs.delete, LAMBDA item : item.type = "file")
      [] k = 5 -> SelectSeq(diffs.delete, LAMBDA item : item.type = "folder")
      [] OTHER -> <<>>

SeqAction(k) ==
    CASE k \in {1, 2} -> "upload"
      [] k = 3 -> "replace"
      [] OTHER -> "delete"

RECURSIVE SeqAdvance(_, _)
\* the next awaited operation from loop k, index i: skips exhausted loops
SeqAdvance(k, i) ==
    IF k > 5 THEN [pc |-> IF dryRun THEN "done" ELSE "state", ph |-> 6, fi |-> 1]
    ELSE IF i <= Len(SeqList(k)) THEN [pc |-> "seq", ph |-> k, fi |-> i]
    ELSE SeqAdvance(k + 1, 1)

SeqStart ==
    /\ pc = "start"
    /\ numWorkers = 0
    /\ LET m == SeqAdvance(1, 1)
       IN pc' = m.pc /\ ph' = m.ph /\ fi' = m.fi
    /\ UNCHANGED <<configVars, deployVars, sessVars, remote, failed, taskQueue, idleWorkers,
                   activeTasks, workers, wstatus, winbox, wmsg, mainLog,
                   enqueued, waiting, outOfOrder, executed, completed, failedTasks, inflight,
                   discarded, failures, stateUploads>>

\* one awaited syncRecordToServer of the sequential path completes
SeqStepDone ==
    /\ pc = "seq"
    /\ LET record == SeqList(ph)[fi]
           res == syncRecordToServer(remote, record, SeqAction(ph))
           m == SeqAdvance(ph, fi + 1)
       IN /\ res.ok
          /\ remote' = res.tree
          /\ mainLog' = Append(mainLog, [action |-> SeqAction(ph), record |-> record, ok |-> TRUE])
          /\ pc' = m.pc /\ ph' = m.ph /\ fi' = m.fi
    /\ UNCHANGED <<configVars, deployVars, sessVars, failed, taskQueue, idleWorkers, activeTasks,
                   workers, wstatus, winbox, wmsg, enqueued, waiting, outOfOrder, executed,
                   completed, failedTasks, inflight, discarded, failures,
                   stateUploads>>

\* faulty variant: the error is swallowed and the loop goes on with the next record
SeqThrowSkipsRecord(k, i) == SeqAdvance(k, i + 1)

\* an error thrown in loop k at index i leaves the loops
SeqThrow(k, i) == [pc |-> "done", ph |-> k, fi |-> i]

\* the awaited operation throws: the error leaves syncLocalToServer
SeqStepThrows ==
    /\ pc = "seq"
    /\ LET record == SeqList(ph)[fi]
           res == syncRecordToServer(remote, record, SeqAction(ph))
       IN \/ /\ ~res.ok
             /\ failures' = failures
          \/ /\ failures < MaxFailures
             /\ failures' = failures + 1
    /\ mainLog' = Append(mainLog, [action |-> SeqAction(ph), record |-> SeqList(ph)[fi], ok |-> FALSE])
    /\ LET m == SeqThrow(ph, fi)
       IN pc' = m.pc /\ ph' = m.ph /\ fi' = m.fi
    /\ failed' = TRUE
    /\ UNCHANGED <<configVars, deployVars, sessVars, remote, taskQueue, idleWorkers,
                   activeTasks, workers, wstatus, winbox, wmsg, enqueued, waiting, outOfOrder,
                   executed, completed, failedTasks, inflight, discarded,
                   stateUploads>>

(* ------------------------------------------------------------ deployment *)
\* Threading's constructor followed by createWorkers
InitPool ==
    /\ taskQueue = <<>>
    /\ idleWorkers = [i \in 1..numWorkers |-> i]
    /\ workers = [i \in 1..numWorkers |-> i]
    /\ activeTasks = 0
    /\ wstatus = [w \in WorkerIds |-> IF w <= numWorkers THEN "connecting" ELSE "exited"]
    /\ winbox = [w \in WorkerIds |-> <<>>]
    /\ wmsg = [w \in WorkerIds |-> <<>>]

InitHistory ==
    /\ mainLog = <<>>
    /\ enqueued = [t \in AllTasks |-> 0]
    /\ executed = [t \in AllTasks |-> 0]
    /\ completed = [t \in AllTasks |-> 0]
    /\ failedTasks = {}
    /\ inflight = [w \in WorkerIds |-> 0]
    /\ discarded = {}
    /\ failures = 0
    /\ stateUploads = 0
    /\ waiting = <<>>
    /\ outOfOrder = FALSE

\* the sessions: 0 is the main client, the others are the workers' clients
Sessions == 0..(MaxWorkers + 1)

\* the main session is connected, the remote root exists and the diff has been
\* computed; no session is old enough to be refreshed
InitConnected ==
    /\ cleanSlate = FALSE
    /\ serverDir = TRUE
    /\ mainSession = "up"
    /\ now = 0
    /\ reconnectInterval = 1
    /\ lastConnectionTime = [s \in Sessions |-> 0]
    /\ connectedAt = [s \in Sessions |-> 0]
    /\ trace = <<>>
    /\ cwd = [s \in Sessions |-> IF s = 0 THEN ServerPath ELSE LoginDir]
    /\ commands = <<>>
    /\ closedOnExit = {}

\* deploy: the diff of a local and a server snapshot is applied to a remote
\* tree that equals the server snapshot
Init ==
    /\ numWorkers \in 0..MaxWorkers
    /\ dryRun \in BOOLEAN
    /\ local \in LocalSnapshots
    /\ \E s \in ServerSnapshots(local) :
        /\ remote = s
        /\ diffs = getDiffs(local, s)
    /\ pc = "start"
    /\ ph = 1
    /\ fi = 1
    /\ failed = FALSE
    /\ InitPool
    /\ InitHistory
    /\ InitConnected

WorkerStep(w) ==
    \/ WorkerConnect(w)
    \/ WorkerConnectFail(w)
    \/ WorkerTaskCompleted(w)
    \/ WorkerTaskFailed(w)
    \/ WorkerRefreshFailed(w)

MainHandles(w) ==
    \/ HandleTaskCompleted(w)
    \/ HandleTaskFailed(w)

Next ==
    \/ SeqStart
    \/ SeqStepDone
    \/ SeqStepThrows
    \/ MTStart
    \/ MTFolderDone
    \/ MTFolderThrows
    \/ MTWaitReturns
    \/ StateUploadDone
    \/ StateUploadThrows
    \/ ThreadingStop
    \/ \E w \in WorkerIds : WorkerStep(w)
    \/ \E w \in WorkerIds : MainHandles(w)

Spec == Init /\ [][Next]_vars

(* ------------------------------------------------- deploy from its start *)
EmptyTree == [r \in Records |-> 0]

\* what can happen inside getServerFiles
ServerFilesOutcomes == {"ok", "ensureDirThrows", "clearThrows", "downloadThrows"}

\* the remote operations of getServerFiles, as entries of commands
ServerFilesCommand(name) == [cmd |-> name, arg |-> <<>>]

\* faulty variant: the clean slate does not leave the normal path, the state
\* file is read after the clearing
getServerFilesReadsAfterClear(tree, dir, o) ==
    IF o = "ensureDirThrows"
    THEN [tree |-> tree, serverDir |-> dir, data |-> EmptyTree,
          commands |-> <<ServerFilesCommand("ensureDir")>>]
    ELSE LET cleared == IF cleanSlate /\ ~dryRun /\ o # "clearThrows"
                        THEN EmptyTree ELSE tree
             issued == IF cleanSlate /\ ~dryRun
                       THEN <<ServerFilesCommand("ensureDir"),
                              ServerFilesCommand("clearWorkingDir")>>
                       ELSE <<ServerFilesCommand("ensureDir")>>
         IN IF o \in {"downloadThrows", "clearThrows"} \/ cleared[FileS] = 0
            THEN [tree |-> cleared, serverDir |-> TRUE, data |-> EmptyTree,
                  commands |-> issued]
            ELSE [tree |-> cleared, serverDir |-> TRUE, data |-> cleared,
                  commands |-> Append(issued, ServerFilesCommand("downloadFileList"))]

\* getServerFiles: ensureDir(server-dir), the clean slate, downloadFileList;
\* every error is caught and gives a snapshot with no entry. data is the
\* snapshot handed to the diff: the state file describes the remote tree
getServerFiles(tree, dir, o) ==
    IF o = "ensureDirThrows"
    THEN [tree |-> tree, serverDir |-> dir, data |-> EmptyTree,
          commands |-> <<ServerFilesCommand("ensureDir")>>]
    ELSE IF cleanSlate
    THEN IF dryRun
         THEN [tree |-> tree, serverDir |-> TRUE, data |-> EmptyTree,
               commands |-> <<ServerFilesCommand("ensureDir")>>]
         ELSE [tree |-> IF o = "clearThrows" THEN tree ELSE EmptyTree,
               serverDir |-> TRUE, data |-> EmptyTree,
               commands |-> <<ServerFilesCommand("ensureDir"),
                              ServerFilesCommand("clearWorkingDir")>>]
    ELSE IF o = "downloadThrows" \/ tree[FileS] = 0
    THEN [tree |-> tree, serverDir |-> TRUE, data |-> EmptyTree,
          commands |-> <<ServerFilesCommand("ensureDir"),
                         ServerFilesCommand("downloadFileList")>>]
    ELSE [tree |-> tree, serverDir |-> TRUE, data |-> tree,
          commands |-> <<ServerFilesCommand("ensureDir"),
                         ServerFilesCommand("downloadFileList")>>]

\* faulty variant: a failed connect is logged and the deployment goes on
AfterConnectThrowsGoesOn == "serverfiles"

\* connect throws: deploy's catch rethrows and the deployment ends
AfterConnectThrows == "done"

\* await connect(client, args, logger) succeeds
Connect ==
    /\ pc = "connect"
    /\ mainSession' = "up"
    /\ connectedAt' = [connectedAt EXCEPT ![0] = now]
    /\ cwd' = [cwd EXCEPT ![0] = LoginDir]
    /\ pc' = "serverfiles"
    /\ UNCHANGED <<configVars, remote, ph, fi, failed, taskQueue, idleWorkers,
                   activeTasks, workers, wstatus, winbox, wmsg, mainLog,
                   enqueued, waiting, outOfOrder, executed, completed, failedTasks,
                   inflight, discarded, failures, stateUploads, cleanSlate,
                   serverDir, now, reconnectInterval, lastConnectionTime, trace,
                   commands, closedOnExit>>

\* await connect(client, args, logger) throws
ConnectThrows ==
    /\ pc = "connect"
    /\ failures < MaxFailures
    /\ failures' = failures + 1
    /\ mainSession' = "failed"
    /\ failed' = TRUE
    /\ pc' = AfterConnectThrows
    /\ UNCHANGED <<configVars, sessVars, remote, ph, fi, taskQueue,
                   idleWorkers, activeTasks, workers, wstatus, winbox, wmsg,
                   mainLog, enqueued, waiting, outOfOrder, executed, completed,
                   failedTasks, inflight, discarded, stateUploads, cleanSlate,
                   serverDir>>

\* getServerFiles returns; the diff is computed and, with more than one
\* connection, the pool is constructed and its workers are created
GetServerFiles ==
    /\ pc = "serverfiles"
    /\ \E o \in {x \in ServerFilesOutcomes :
                    x = "clearThrows" => cleanSlate /\ ~dryRun} :
        LET res == getServerFiles(remote, serverDir, o)
        IN /\ \/ /\ o = "ok"
                 /\ failures' = failures
              \/ /\ o # "ok"
                 /\ failures < MaxFailures
                 /\ failures' = failures + 1
           /\ remote' = res.tree
           /\ serverDir' = res.serverDir
           /\ diffs' = getDiffs(local, res.data)
           /\ cwd' = [cwd EXCEPT ![0] = IF o = "ensureDirThrows" THEN @ ELSE ServerPath]
           /\ commands' = res.commands
    /\ idleWorkers' = [i \in 1..numWorkers |-> i]
    /\ workers' = [i \in 1..numWorkers |-> i]
    /\ wstatus' = [w \in WorkerIds |-> IF w <= numWorkers THEN "connecting" ELSE "exited"]
    /\ pc' = "start"
    /\ UNCHANGED <<numWorkers, dryRun, local, now, reconnectInterval,
                   lastConnectionTime, connectedAt, trace, closedOnExit, ph, fi, failed,
                   taskQueue, activeTasks, winbox, wmsg, mainLog, enqueued,
                   waiting, outOfOrder, executed, completed, failedTasks, inflight,
                   discarded, stateUploads, cleanSlate, mainSession>>

\* deploy is called, in sequential mode or with a pool of MaxDeployWorkers
\* workers: nothing is connected and no pool exists. A remote root that does
\* not exist holds nothing
DeployInit ==
    /\ numWorkers \in {0, MaxDeployWorkers}
    /\ dryRun \in BOOLEAN
    /\ cleanSlate \in BOOLEAN
    /\ local \in LocalSnapshots
    /\ remote \in ServerSnapshots(local)
    /\ serverDir \in BOOLEAN
    /\ ~serverDir => remote = EmptyTree
    /\ diffs = EmptyDiffs
    /\ mainSession = "new"
    /\ pc = "connect"
    /\ ph = 1
    /\ fi = 1
    /\ failed = FALSE
    /\ taskQueue = <<>>
    /\ idleWorkers = <<>>
    /\ workers = <<>>
    /\ activeTasks = 0
    /\ wstatus = [w \in WorkerIds |-> "exited"]
    /\ winbox = [w \in WorkerIds |-> <<>>]
    /\ wmsg = [w \in WorkerIds |-> <<>>]
    /\ InitHistory
    /\ now = 0
    /\ reconnectInterval = 1
    /\ lastConnectionTime = [s \in Sessions |-> 0]
    /\ connectedAt = [s \in Sessions |-> 0]
    /\ trace = <<>>
    /\ cwd = [s \in Sessions |-> LoginDir]
    /\ commands = <<>>
    /\ closedOnExit = {}

DeployNext ==
    \/ Connect
    \/ ConnectThrows
    \/ GetServerFiles
    \/ Next

DeploySpec == DeployInit /\ [][DeployNext]_vars

(* ------------------------------------------------- one session over time *)
\* faulty variant: a session is refreshed only when it is older than the max age
shouldRefreshWhenOlder(t, last, interval) == t - last > interval

\* the test of ensureFreshConnection, in the worker and in deploy
shouldRefresh(t, last, interval) == t - last >= interval

\* what the remote can answer to one processTask or one main-session action:
\* refresh and reconnect say whether a connect succeeds, first and second how
\* the first and the second execution of the action end
Outcomes ==
    [refresh : BOOLEAN, first : {"ok", "Not connected", "other"},
     reconnect : BOOLEAN, second : {"ok", "thrown"}]

\* the error of an execution that does not succeed
ErrorOf(answer, res) ==
    IF answer = "Not connected" THEN "Not connected"
    ELSE IF answer = "other" \/ ~res.ok THEN "other"
    ELSE "none"

\* faulty variant: a retry that finds the session not connected again
\* reconnects and executes the action a third time
processTaskRetriesAgain(task, tree, t, last, interval, o) ==
    LET stale == shouldRefresh(t, last, interval)
        res == syncRecordToServer(tree, task.record, task.action)
        err == ErrorOf(o.first, res)
    IN IF stale /\ ~o.refresh
       THEN [report |-> "none", reports |-> 0, tree |-> tree, last |-> last,
             refreshed |-> TRUE, reestablished |-> 0, execs |-> 0, error |-> "none"]
       ELSE IF err = "Not connected" /\ o.reconnect /\ o.second = "thrown"
       THEN [report |-> IF res.ok THEN "taskCompleted" ELSE "taskFailed",
             reports |-> 1, tree |-> res.tree, last |-> t,
             refreshed |-> stale, reestablished |-> 2, execs |-> 3, error |-> err]
       ELSE IF err = "Not connected" /\ o.reconnect
       THEN [report |-> IF res.ok THEN "taskCompleted" ELSE "taskFailed",
             reports |-> 1, tree |-> res.tree, last |-> t,
             refreshed |-> stale, reestablished |-> 1, execs |-> 2, error |-> err]
       ELSE [report |-> IF err = "none" THEN "taskCompleted" ELSE "taskFailed",
             reports |-> 1, tree |-> IF err = "none" THEN res.tree ELSE tree,
             last |-> IF stale THEN t ELSE last, refreshed |-> stale,
             reestablished |-> IF err = "Not connected" THEN 1 ELSE 0,
             execs |-> 1, error |-> err]

\* processTask of the worker, at time t with lastConnectionTime = last: the
\* report posted, the remote tree and lastConnectionTime afterwards, whether
\* ensureFreshConnection closed and reopened the session, the calls of
\* establishConnection made after a failed execution, and the executions of
\* the action
processTask(task, tree, t, last, interval, o) ==
    LET stale == shouldRefresh(t, last, interval)
        res == syncRecordToServer(tree, task.record, task.action)
        err == ErrorOf(o.first, res)
    IN IF stale /\ ~o.refresh
       THEN \* ensureFreshConnection returns false: return false, nothing posted
            [report |-> "none", reports |-> 0, tree |-> tree, last |-> last,
             refreshed |-> TRUE, reestablished |-> 0, execs |-> 0, error |-> "none"]
       ELSE IF err = "none"
       THEN [report |-> "taskCompleted", reports |-> 1, tree |-> res.tree,
             last |-> IF stale THEN t ELSE last, refreshed |-> stale,
             reestablished |-> 0, execs |-> 1, error |-> err]
       ELSE IF err = "Not connected" /\ o.reconnect
       THEN \* establishConnection succeeded: the action is executed once more
            IF o.second = "ok" /\ res.ok
            THEN [report |-> "taskCompleted", reports |-> 1, tree |-> res.tree,
                  last |-> t, refreshed |-> stale, reestablished |-> 1,
                  execs |-> 2, error |-> err]
            ELSE [report |-> "taskFailed", reports |-> 1, tree |-> tree,
                  last |-> t, refreshed |-> stale, reestablished |-> 1,
                  execs |-> 2, error |-> err]
       ELSE [report |-> "taskFailed", reports |-> 1, tree |-> tree,
             last |-> IF stale THEN t ELSE last, refreshed |-> stale,
             reestablished |-> IF err = "Not connected" THEN 1 ELSE 0,
             execs |-> 1, error |-> err]

\* syncRecordToServer on the main session: the reconnect callback
\* (ensureFreshConnection of deploy, which throws when the connect fails), then
\* the action
mainSyncRecord(task, tree, t, last, interval, o) ==
    LET stale == shouldRefresh(t, last, interval)
        res == syncRecordToServer(tree, task.record, task.action)
        err == ErrorOf(o.first, res)
    IN IF stale /\ ~o.refresh
       THEN [report |-> "thrown", reports |-> 0, tree |-> tree, last |-> last,
             refreshed |-> TRUE, reestablished |-> 0, execs |-> 0, error |-> "other"]
       ELSE [report |-> IF err = "none" THEN "returned" ELSE "thrown",
             reports |-> 0, tree |-> IF err = "none" THEN res.tree ELSE tree,
             last |-> IF stale THEN t ELSE last, refreshed |-> stale,
             reestablished |-> 0, execs |-> 1, error |-> err]

\* the tasks given to the sessions
SessTasks == {[action |-> "upload", record |-> FileT], [action |-> "delete", record |-> FileT]}

\* a dry run sends nothing to the remote, so no execution can fail
Answers == {o \in Outcomes : dryRun => o.first = "ok" /\ o.second = "ok"}

\* the working directory of the session after an action: a client that has
\* just been connected is in the login directory, and connect does not leave it
DirAfter(session, r) ==
    IF r.last # lastConnectionTime[session] \/ r.reestablished > 0
    THEN LoginDir ELSE cwd[session]

\* the trace entry of one handled action: age is the time since the session
\* was last connected or refreshed, dir the working directory the action was
\* executed in
Entry(session, task, r) ==
    [session |-> session, task |-> task, age |-> now - connectedAt[session],
     refreshed |-> r.refreshed, reestablished |-> r.reestablished,
     execs |-> r.execs, report |-> r.report, reports |-> r.reports,
     error |-> r.error, dir |-> DirAfter(session, r)]

\* when the session was last connected or refreshed, after an action
ConnectedAfter(session, r) ==
    IF r.last # lastConnectionTime[session] THEN now ELSE connectedAt[session]

\* time passes
Tick ==
    /\ now < MaxAge + MaxTicks
    /\ now' = now + 1
    /\ UNCHANGED <<configVars, deployVars, remote, pc, ph, fi, failed,
                   taskQueue, idleWorkers, activeTasks, workers, wstatus,
                   winbox, wmsg, mainLog, enqueued, waiting, outOfOrder, executed,
                   completed, failedTasks, inflight, discarded, failures,
                   stateUploads, reconnectInterval, lastConnectionTime,
                   connectedAt, trace, cwd, commands, closedOnExit>>

\* the worker receives a newTask message and runs processTask
SessWorkerTask(w) ==
    /\ wstatus[w] = "up"
    /\ Len(trace) < MaxOps
    /\ \E task \in SessTasks, o \in Answers :
        LET r == processTask(task, remote, now, lastConnectionTime[w], reconnectInterval, o)
        IN /\ remote' = r.tree
           /\ lastConnectionTime' = [lastConnectionTime EXCEPT ![w] = r.last]
           /\ connectedAt' = [connectedAt EXCEPT ![w] = ConnectedAfter(w, r)]
           /\ cwd' = [cwd EXCEPT ![w] = DirAfter(w, r)]
           /\ trace' = Append(trace, Entry(w, task, r))
           /\ wmsg' = [wmsg EXCEPT ![w] =
                        IF r.report = "none" THEN @
                        ELSE Append(@, [type |-> r.report, task |-> task])]
    /\ UNCHANGED <<configVars, deployVars, pc, ph, fi, failed, taskQueue,
                   idleWorkers, activeTasks, workers, wstatus, winbox, mainLog,
                   enqueued, waiting, outOfOrder, executed, completed, failedTasks,
                   inflight, discarded, failures, stateUploads, now,
                   reconnectInterval, commands, closedOnExit>>

\* the main session runs one awaited syncRecordToServer; an error ends the
\* deployment
SessMainSync ==
    /\ pc = "session"
    /\ Len(trace) < MaxOps
    /\ \E task \in SessTasks, o \in Answers :
        LET r == mainSyncRecord(task, remote, now, lastConnectionTime[0], reconnectInterval, o)
        IN /\ remote' = r.tree
           /\ lastConnectionTime' = [lastConnectionTime EXCEPT ![0] = r.last]
           /\ connectedAt' = [connectedAt EXCEPT ![0] = ConnectedAfter(0, r)]
           /\ cwd' = [cwd EXCEPT ![0] = DirAfter(0, r)]
           /\ trace' = Append(trace, Entry(0, task, r))
           /\ mainLog' = Append(mainLog, [action |-> task.action, record |-> task.record,
                                          ok |-> r.report = "returned"])
           /\ failed' = (r.report = "thrown")
           /\ pc' = IF r.report = "thrown" THEN "done" ELSE "session"
    /\ UNCHANGED <<configVars, deployVars, ph, fi, taskQueue, idleWorkers,
                   activeTasks, workers, wstatus, winbox, wmsg, enqueued,
                   waiting, outOfOrder, executed, completed, failedTasks, inflight,
                   discarded, failures, stateUploads, now, reconnectInterval,
                   commands, closedOnExit>>

\* the main client has just been connected by deploy, which leaves
\* lastConnectionTimeRef.time at 0, and one worker is starting. Date.now()
\* counts from 1970: the clock starts at a time no smaller than any max age
SessionInit ==
    /\ numWorkers = 1
    /\ dryRun \in BOOLEAN
    /\ local = Records
    /\ diffs = EmptyDiffs
    /\ remote = [r \in Records |-> 1]
    /\ pc = "session"
    /\ ph = 1
    /\ fi = 1
    /\ failed = FALSE
    /\ InitPool
    /\ InitHistory
    /\ cleanSlate = FALSE
    /\ serverDir = TRUE
    /\ mainSession = "up"
    /\ now = MaxAge
    /\ reconnectInterval \in 1..MaxAge
    /\ lastConnectionTime = [s \in Sessions |-> 0]
    /\ connectedAt = [s \in Sessions |-> now]
    /\ trace = <<>>
    /\ cwd = [s \in Sessions |-> IF s = 0 THEN ServerPath ELSE LoginDir]
    /\ commands = <<>>
    /\ closedOnExit = {}

SessionNext ==
    \/ Tick
    \/ SessMainSync
    \/ \E w \in WorkerIds : WorkerConnect(w)
    \/ \E w \in WorkerIds : SessWorkerTask(w)

SessionSpec == SessionInit /\ [][SessionNext]_vars

(* ------------------------------------------- createFolder and the session *)
\* the longest folder path given to createFolder
MaxPathLen == 3

\* retryRequest: the number of attempts at one remote operation
MaxAttempts == 2

RECURSIVE Strings(_)
\* the strings of at most n characters over "a" and "/"
Strings(n) ==
    IF n = 0 THEN {<<>>}
    ELSE LET shorter == Strings(n - 1)
         IN shorter \cup {Append(str, c) : str \in shorter, c \in {"a", "/"}}

FolderPaths == Strings(MaxPathLen)

\* the directories createFolder is called in
StartDirs == {LoginDir, ServerPath, ServerPath \o <<<<"a">>>>}

\* for every attempt of client.ensureDir, how many levels it descends before a
\* command fails; an attempt that gets through every level succeeds
Stops == [1..MaxAttempts -> 0..MaxPathLen]

\* client.cdup()
cdup(dir) == IF dir = <<>> THEN dir ELSE SubSeq(dir, 1, Len(dir) - 1)

RECURSIVE upDir(_, _)
\* upDir(dirCount): dirCount times cdup, [dir, commands]
upDir(dir, dirCount) ==
    IF dirCount = 0 THEN [dir |-> dir, commands |-> <<>>]
    ELSE LET rest == upDir(cdup(dir), dirCount - 1)
         IN [dir |-> rest.dir,
             commands |-> <<[cmd |-> "CDUP", arg |-> <<>>]>> \o rest.commands]

RECURSIVE openDirs(_, _)
\* the commands of client.ensureDir for the names: MKD, its error ignored,
\* then CWD
openDirs(names, count) ==
    IF count = 0 THEN <<>>
    ELSE openDirs(names, count - 1)
         \o <<[cmd |-> "MKD", arg |-> names[count]],
              [cmd |-> "CWD", arg |-> names[count]]>>

\* one attempt of client.ensureDir(folder) in dir: an absolute path starts at
\* "/", then every non-empty name is created and entered in turn. The attempt
\* fails on the CWD after `stop` levels, or succeeds when there are no more
\* than `stop` levels: [ok, dir, commands]
clientEnsureDir(dir, folder, stop) ==
    LET names == SelectSeq(Split(folder), LAMBDA name : name # <<>>)
        start == IF folder # <<>> /\ Head(folder) = "/" THEN <<>> ELSE dir
    IN IF stop >= Len(names)
       THEN [ok |-> TRUE, dir |-> start \o names,
             commands |-> openDirs(names, Len(names))]
       ELSE [ok |-> FALSE, dir |-> start \o SubSeq(names, 1, stop),
             commands |-> openDirs(names, stop + 1)]

RECURSIVE ensureDir(_, _, _)
\* ensureDir: retryRequest around client.ensureDir(folder); a failed attempt
\* is followed by another one, in the directory the failed one has reached,
\* until the attempts are used up
ensureDir(dir, folder, stops) ==
    IF stops = <<>> THEN [ok |-> FALSE, dir |-> dir, commands |-> <<>>]
    ELSE LET attempt == clientEnsureDir(dir, folder, Head(stops))
         IN IF attempt.ok THEN attempt
            ELSE LET again == ensureDir(attempt.dir, folder, Tail(stops))
                 IN [ok |-> again.ok, dir |-> again.dir,
                     commands |-> attempt.commands \o again.commands]

\* createFolder on the working directory: [ok, dir, commands]
createFolderIn(dir, folderPath, stops) ==
    IF dryRun THEN [ok |-> TRUE, dir |-> dir, commands |-> <<>>]
    ELSE LET path == getFileBreadcrumbs(folderPath \o <<"/">>)
         IN IF path.folders = <<>>
            THEN [ok |-> TRUE, dir |-> dir, commands |-> <<>>]
            ELSE LET down == ensureDir(dir, Join(path.folders), stops)
                     up == upDir(down.dir, Len(path.folders))
                 IN IF down.ok
                    THEN [ok |-> TRUE, dir |-> up.dir,
                          commands |-> down.commands \o up.commands]
                    ELSE [ok |-> FALSE, dir |-> down.dir,
                          commands |-> down.commands]

\* the main session runs createFolder(folderPath)
CreateFolder ==
    /\ pc = "folder"
    /\ \E folderPath \in FolderPaths, stops \in Stops :
        LET r == createFolderIn(cwd[0], folderPath,
                                [i \in 1..MaxAttempts |-> stops[i]])
        IN /\ cwd' = [cwd EXCEPT ![0] = r.dir]
           /\ commands' = r.commands
           /\ failed' = ~r.ok
           /\ mainLog' = Append(mainLog,
                            [action |-> "upload",
                             record |-> [type |-> "folder", name |-> folderPath],
                             ok |-> r.ok])
    /\ pc' = "done"
    /\ UNCHANGED <<configVars, deployVars, remote, ph, fi, taskQueue,
                   idleWorkers, activeTasks, workers, wstatus, winbox, wmsg,
                   enqueued, waiting, outOfOrder, executed, completed,
                   failedTasks, inflight, discarded, failures, stateUploads,
                   now, reconnectInterval, lastConnectionTime, connectedAt,
                   trace, closedOnExit>>

\* a connected main session somewhere below the login directory
FolderInit ==
    /\ numWorkers = 0
    /\ dryRun \in BOOLEAN
    /\ local = Records
    /\ diffs = EmptyDiffs
    /\ remote = [r \in Records |-> 1]
    /\ pc = "folder"
    /\ ph = 1
    /\ fi = 1
    /\ failed = FALSE
    /\ InitPool
    /\ InitHistory
    /\ cleanSlate = FALSE
    /\ serverDir = TRUE
    /\ mainSession = "up"
    /\ now = 0
    /\ reconnectInterval = 1
    /\ lastConnectionTime = [s \in Sessions |-> 0]
    /\ connectedAt = [s \in Sessions |-> 0]
    /\ trace = <<>>
    /\ cwd \in {[s \in Sessions |-> IF s = 0 THEN d ELSE LoginDir] : d \in StartDirs}
    /\ commands = <<>>
    /\ closedOnExit = {}

FolderNext == CreateFolder

FolderSpec == FolderInit /\ [][FolderNext]_vars

(* ------------------------------------------------ the pool under any caller *)
\* the records a caller passes to addTasks: files, each once per action
PoolFiles(action) ==
    SelectSeq(Universe, LAMBDA r : r.type = "file"
                                   /\ enqueued[[action |-> action, record |-> r]] = 0)

TotalEnqueued == Cardinality({t \in AllTasks : enqueued[t] > 0})

\* a pool of 1..MaxWorkers workers right after Threading.start, with a remote
\* tree that holds every record
PoolInit ==
    /\ numWorkers \in 1..MaxWorkers
    /\ dryRun = FALSE
    /\ local = Records
    /\ diffs = EmptyDiffs
    /\ remote = [r \in Records |-> 1]
    /\ pc = "pool"
    /\ ph = 1
    /\ fi = 1
    /\ failed = FALSE
    /\ InitPool
    /\ InitHistory
    /\ InitConnected

\* the action of the caller's next batch: uploads, then replacements, then
\* deletions, as in syncLocalToServerMultiThread
PoolAction ==
    IF PoolFiles("upload") # <<>> THEN "upload"
    ELSE IF PoolFiles("replace") # <<>> THEN "replace"
    ELSE "delete"

\* the caller calls addTasks(batch, action)
PoolAddTasks ==
    /\ pc = "pool"
    /\ \E n \in 0..MaxBatch :
        /\ n <= Len(PoolFiles(PoolAction))
        /\ TotalEnqueued + n <= MaxTasks
        /\ SetPool(addTasks(Pool, SubSeq(PoolFiles(PoolAction), 1, n), PoolAction))
    /\ UNCHANGED <<configVars, deployVars, sessVars, remote, pc, ph, fi, failed, workers, wstatus,
                   wmsg, mainLog, executed, completed, failedTasks, discarded,
                   failures, stateUploads>>

\* the caller calls waitForAllTasks
PoolWait ==
    /\ pc = "pool"
    /\ pc' = "poolwait"
    /\ UNCHANGED <<configVars, deployVars, sessVars, remote, ph, fi, failed, taskQueue, idleWorkers,
                   activeTasks, workers, wstatus, winbox, wmsg, mainLog,
                   enqueued, waiting, outOfOrder, executed, completed, failedTasks, inflight,
                   discarded, failures, stateUploads>>

\* waitForAllTasks returns to the caller
PoolWaitReturns ==
    /\ pc = "poolwait"
    /\ ~waitForAllTasksPending(Pool)
    /\ pc' = "returned"
    /\ UNCHANGED <<configVars, deployVars, sessVars, remote, ph, fi, failed, taskQueue, idleWorkers,
                   activeTasks, workers, wstatus, winbox, wmsg, mainLog,
                   enqueued, waiting, outOfOrder, executed, completed, failedTasks, inflight,
                   discarded, failures, stateUploads>>

PoolNext ==
    \/ PoolAddTasks
    \/ PoolWait
    \/ PoolWaitReturns
    \/ \E w \in WorkerIds : WorkerStep(w)
    \/ \E w \in WorkerIds : MainHandles(w)

PoolSpec == PoolInit /\ [][PoolNext]_vars

\* the steps that go on by themselves: the caller's await of waitForAllTasks,
\* the worker threads and the message handlers of the event loop. Adding
\* another batch is the caller's choice
PoolProgress ==
    \/ PoolWait
    \/ PoolWaitReturns
    \/ \E w \in WorkerIds : WorkerStep(w)
    \/ \E w \in WorkerIds : MainHandles(w)

\* the event loop and the worker threads keep running while a step is possible
FairPoolSpec == PoolSpec /\ WF_vars(PoolProgress)

(* ================================================================ claims *)
LogOp(e) == [action |-> e.action, record |-> e.record]

Op(action, record) == [action |-> action, record |-> record]

IsPrefix(a, b) == Len(a) <= Len(b) /\ SubSeq(b, 1, Len(a)) = a

Last(q) == q[Len(q)]

Busy == {w \in WorkerIds : inflight[w] > 0}

\* no task is waiting, handed to a worker or awaiting its report
PoolDrained ==
    /\ taskQueue = <<>>
    /\ activeTasks = 0
    /\ \A w \in WorkerIds : inflight[w] = 0 /\ winbox[w] = <<>> /\ wmsg[w] = <<>>

StateUploadStarted == pc = "state" \/ stateUploads > 0

\* C1: in parallel mode the state file upload starts only when the queue is
\* empty, the active-task counter is zero and no worker has a task in flight,
\* and once it has started no worker executes a task and the main session
\* issues no operation other than that upload.
C1_StateUploadAfterDrain ==
    /\ []((numWorkers > 0 /\ StateUploadStarted) => PoolDrained)
    /\ [][(numWorkers > 0 /\ StateUploadStarted) =>
            /\ executed' = executed
            /\ enqueued' = enqueued
            /\ \/ mainLog' = mainLog
               \/ /\ pc = "state"
                  /\ Len(mainLog') = Len(mainLog) + 1
                  /\ Last(mainLog').action = "state"]_vars

\* C1 witness: workers completed tasks and the state file upload has started
C1_Witness ==
    /\ numWorkers > 0
    /\ pc = "state"
    /\ \E t \in AllTasks : completed[t] > 0

(* ---------------------------------------------------------------- C2 *)
OpsOf(records, action) == [i \in 1..Len(records) |-> Op(action, records[i])]

\* the operations the claim prescribes for a diff, phase by phase
PhaseOrder ==
    OpsOf(SelectSeq(diffs.upload, LAMBDA r : r.type = "folder"), "upload")
    \o OpsOf(SelectSeq(diffs.upload, LAMBDA r : r.type = "file" /\ r # FileS), "upload")
    \o OpsOf(SelectSeq(diffs.replace, LAMBDA r : r # FileS), "replace")
    \o OpsOf(SelectSeq(diffs.delete, LAMBDA r : r.type = "file"), "delete")
    \o OpsOf(SelectSeq(diffs.delete, LAMBDA r : r.type = "folder"), "delete")

IssuedOps == [i \in 1..Len(mainLog) |-> LogOp(mainLog[i])]

\* C2: in sequential mode the operations issued so far are always an initial
\* part of: folder creations, file uploads, replacements, file deletions,
\* folder deletions, state file upload; each is issued after the one before it
\* completed, and a deployment that ends without error has issued all of them
\* (the state file upload unless dry-run).
C2_SequentialPhaseOrder ==
    numWorkers = 0 =>
        /\ IsPrefix(IssuedOps, PhaseOrder \o <<Op("state", FileS)>>)
        /\ \A i \in 1..(Len(mainLog) - 1) : mainLog[i].ok
        /\ (pc = "done" /\ ~failed) =>
              IssuedOps = IF dryRun THEN PhaseOrder
                          ELSE PhaseOrder \o <<Op("state", FileS)>>

\* C2 witness: upload = [folder a, file a/x] ran as createFolder(a),
\* uploadFile(a/x), state file
C2_Witness ==
    /\ numWorkers = 0
    /\ pc = "done"
    /\ ~failed
    /\ diffs = [upload |-> <<FolderA, FileAX>>, replace |-> <<>>, delete |-> <<>>]
    /\ IssuedOps = <<Op("upload", FolderA), Op("upload", FileAX), Op("state", FileS)>>

(* ---------------------------------------------------------------- C3 *)
\* the remote tree holds exactly the local snapshot (the state file aside)
RemoteEqualsLocal ==
    \A r \in Records \ {FileS} : remote[r] = IF r \in local THEN 1 ELSE 0

Completed == pc = "done" /\ ~failed /\ ~dryRun

\* C3: a deployment that completes without error leaves the remote tree equal
\* to the local snapshot, in sequential and in parallel mode.
C3_RoundTrip == Completed => RemoteEqualsLocal

\* the round trip in sequential mode alone
C3_RoundTripSequential == (Completed /\ numWorkers = 0) => RemoteEqualsLocal

(* ---------------------------------------------------------------- C4 *)
\* the per-record actions taken so far: on the main session and as tasks
PerRecordOps ==
    {LogOp(mainLog[i]) : i \in {j \in 1..Len(mainLog) : mainLog[j].action # "state"}}
    \cup {t \in AllTasks : enqueued[t] > 0}

StateUploadedOnceAndLast ==
    /\ stateUploads <= 1
    /\ stateUploads = 1 =>
          /\ Last(mainLog).action = "state"
          /\ taskQueue = <<>>
          /\ \A w \in WorkerIds : winbox[w] = <<>>
    /\ Completed => stateUploads = 1

\* C4 as stated: no per-record action targets the state file, also when it is
\* in the delete set, and the state file is uploaded exactly once, last.
C4_StateFileNeverPerRecord ==
    /\ \A o \in PerRecordOps : o.record.name # StateName
    /\ StateUploadedOnceAndLast

\* C4 amended: no per-record upload or replace targets the state file; a state
\* file listed in the delete set is removed by a per-record delete like any file;
\* the state file is uploaded at most once, as the last operation, and exactly
\* once by a deployment that completes without error and is not a dry run.
C4_StateFileNeverUploadedPerRecord ==
    /\ \A o \in PerRecordOps : o.record.name = StateName => o.action = "delete"
    /\ (Completed /\ FileS \in Range(diffs.delete)) => Op("delete", FileS) \in PerRecordOps
    /\ StateUploadedOnceAndLast

\* C4 witness: the state file was in the delete set, was removed by a
\* per-record delete, and was then uploaded once by a completed deployment
C4_Witness ==
    /\ Completed
    /\ FileS \in Range(diffs.delete)
    /\ Op("delete", FileS) \in PerRecordOps
    /\ stateUploads = 1
    /\ remote[FileS] = 1

(* ---------------------------------------------------------------- C5 *)
\* folder creations completed on the main session
CreatedFolders ==
    {mainLog[i].record : i \in {j \in 1..Len(mainLog) :
        mainLog[j].action = "upload" /\ mainLog[j].record.type = "folder" /\ mainLog[j].ok}}

\* upload-set files enqueued (parallel mode) or issued (sequential mode)
DispatchedUploads ==
    {r \in Records : r.type = "file" /\
        \/ enqueued[Op("upload", r)] > 0
        \/ \E i \in 1..Len(mainLog) : LogOp(mainLog[i]) = Op("upload", r)}

\* C5: a file of the upload set whose containing folder is a folder of the
\* upload set is enqueued or uploaded only after createFolder of that folder
\* completed on the main session.
C5_FolderBeforeItsFiles ==
    \A f \in DispatchedUploads :
        \A F \in Range(diffs.upload) :
            (F.type = "folder" /\ FolderNameOf(f.name) = F.name) => F \in CreatedFolders

\* C5 witness: a worker uploaded a/x after folder a of the upload set was created
C5_Witness ==
    /\ numWorkers > 0
    /\ FolderA \in Range(diffs.upload)
    /\ executed[Op("upload", FileAX)] > 0

(* ---------------------------------------------------------------- C6 *)
\* C6 as stated: idle workers plus busy workers equal the pool size.
C6_IdlePlusBusyIsPoolSize ==
    Len(idleWorkers) + Cardinality(Busy) = numWorkers

\* C6 amended: idle workers plus busy workers equal the pool size minus the
\* workers discarded after a taskFailed report (a discarded worker is neither
\* idle nor busy and is not replaced).
C6_IdlePlusBusyPlusDiscarded ==
    /\ Len(idleWorkers) + Cardinality(Busy) + Cardinality(discarded) = numWorkers
    /\ discarded \cap (Busy \cup Range(idleWorkers)) = {}
    /\ Busy \cap Range(idleWorkers) = {}

\* C6 witness: one worker was discarded, one is busy and one task was completed
C6_Witness ==
    /\ Cardinality(discarded) = 1
    /\ Cardinality(Busy) = 1
    /\ Len(idleWorkers) + Cardinality(Busy) = numWorkers - 1
    /\ \E t \in AllTasks : completed[t] > 0

(* ---------------------------------------------------------------- C7 *)
\* C7: a task reported taskFailed once, whose next execution would succeed (no
\* further failure can occur), is eventually reported taskCompleted exactly
\* once, with exactly one worker discarded.
C7_FailedTaskCompletesOnRequeue ==
    \A t \in AllTasks :
        (t \in failedTasks /\ failures = MaxFailures)
            ~> (completed[t] = 1 /\ Cardinality(discarded) = 1)

(* ---------------------------------------------------------------- C8 *)
NoFailure == failures = 0

\* C8: when nothing fails, waitForAllTasks eventually returns, no task is
\* reported completed more often than it was added, and when waitForAllTasks
\* has returned every task passed to addTasks has been executed and reported
\* taskCompleted exactly once.
C8_AllTasksCompleteThenWaitReturns ==
    /\ <>(pc = "returned" \/ ~NoFailure)
    /\ [](NoFailure => \A t \in AllTasks : completed[t] <= enqueued[t] /\ enqueued[t] <= 1)
    /\ []((NoFailure /\ pc = "returned") =>
            \A t \in AllTasks : completed[t] = enqueued[t] /\ executed[t] = enqueued[t])

\* C8 witness: a pool of 2 workers completed MaxTasks tasks, more than it has
\* workers, and waitForAllTasks returned
C8_Witness ==
    /\ numWorkers = 2
    /\ NoFailure
    /\ pc = "returned"
    /\ TotalEnqueued = MaxTasks
    /\ \A t \in AllTasks : completed[t] = enqueued[t]

(* ---------------------------------------------------------------- C9 *)
\* C9: every worker has at most one task in flight, a worker in the idle list
\* has none and is listed once, and at most pool-size workers are busy.
C9_OneTaskPerWorker ==
    /\ \A w \in WorkerIds : inflight[w] <= 1 /\ Len(winbox[w]) <= 1
    /\ Cardinality(Range(idleWorkers)) = Len(idleWorkers)
    /\ \A w \in Range(idleWorkers) : inflight[w] = 0
    /\ Cardinality(Busy) <= numWorkers

\* C9 witness: both workers of a pool of 2 are busy while tasks wait
C9_Witness ==
    /\ numWorkers = 2
    /\ Busy = {1, 2}
    /\ taskQueue # <<>>

(* --------------------------------------------------------------- C10 *)
ReportedFailure(w) ==
    \/ w \in discarded
    \/ \E i \in 1..Len(wmsg[w]) : wmsg[w][i].type = "taskFailed"

\* C10: a worker that reported taskFailed is not in the idle list, holds no
\* task, and once its report is handled has no task in flight, ever after.
C10_FailedWorkerNeverReused ==
    \A w \in WorkerIds :
        ReportedFailure(w) =>
            /\ w \notin Range(idleWorkers)
            /\ winbox[w] = <<>>
            /\ w \in discarded => inflight[w] = 0

\* C10 witness: a worker was discarded and its task was completed by another
C10_Witness ==
    \E t \in failedTasks :
        /\ completed[t] = 1
        /\ Cardinality(discarded) = 1

(* --------------------------------------------------------------- C11 *)
\* the tasks and main-session operations a dry run decided on are all done
AllDecisionsTaken ==
    IF numWorkers = 0 THEN IssuedOps = PhaseOrder
    ELSE \A t \in AllTasks : completed[t] = enqueued[t]

\* C11: in a dry run no step on any session changes the remote tree or creates
\* the remote root (no ensure-directory, upload, remove, remove-directory,
\* clear or state file upload takes effect), and a dry run that ends without
\* error has taken every per-record decision.
C11_DryRunNeverMutates ==
    /\ [][dryRun => (remote' = remote /\ serverDir' = serverDir)]_vars
    /\ []((dryRun /\ pc = "done" /\ ~failed) => AllDecisionsTaken)

\* the part of C11 that holds: a dry run never changes what is below the
\* remote root
C11_DryRunKeepsTree == [][dryRun => remote' = remote]_vars

(* --------------------------------------------------------------- C14 *)
NothingApplied ==
    /\ mainLog = <<>>
    /\ stateUploads = 0
    /\ workers = <<>>
    /\ diffs = EmptyDiffs
    /\ \A t \in AllTasks : enqueued[t] = 0 /\ executed[t] = 0

\* C14: when the initial connect fails the deployment has ended with failure,
\* no folder creation, upload, replace, delete or state file upload was applied
\* on any session, the failing step left the remote untouched and no step
\* follows it.
C14_ConnectFailureAppliesNothing ==
    /\ [](mainSession = "failed" => (pc = "done" /\ failed /\ NothingApplied))
    /\ [][mainSession' = "failed" =>
            (remote' = remote /\ serverDir' = serverDir)]_vars
    /\ [][mainSession = "failed" => UNCHANGED vars]_vars

\* C14 witness: the connect failed for a deployment that had work to do
C14_Witness ==
    /\ mainSession = "failed"
    /\ pc = "done"
    /\ failed
    /\ numWorkers > 0
    /\ FileT \in local
    /\ remote[FileT] = 0

(* --------------------------------------------------------------- C12 *)
IsFileDelete(o) == o.action = "delete" /\ o.record.type = "file"

\* this step is worker w processing the removal of a file
WorkerRemovesFile(w) ==
    /\ winbox[w] # <<>>
    /\ winbox'[w] = Tail(winbox[w])
    /\ IsFileDelete(Head(winbox[w]))

\* this step is worker w failing to refresh its session before the removal
RefreshFailedStep(w) == wmsg'[w] = wmsg[w] /\ remote' = remote

\* this step is the main session ending the removal of a file
MainRemovesFile ==
    /\ Len(mainLog') = Len(mainLog) + 1
    /\ IsFileDelete(Last(mainLog'))

\* C12: a removal that meets no error other than the not-found answer returns
\* normally (a worker reports taskCompleted, the main session goes on) whether
\* the file was there or not; a removal that fails with another error raises
\* it (a worker reports taskFailed, unless the failure was that of the session
\* refresh before the removal; the main session stops with the error); a
\* deployment fails only through an operation that raised, and one that ends
\* without failure has uploaded the state file.
C12_RemoveFileSkipsNotFound ==
    /\ [][\A w \in WorkerIds : WorkerRemovesFile(w) =>
            IF failures' = failures
            THEN wmsg'[w] = Append(wmsg[w], [type |-> "taskCompleted", task |-> Head(winbox[w])])
            ELSE \/ wmsg'[w] = Append(wmsg[w], [type |-> "taskFailed", task |-> Head(winbox[w])])
                 \/ RefreshFailedStep(w)]_vars
    /\ [][MainRemovesFile =>
            /\ Last(mainLog').ok = (failures' = failures)
            /\ failed' = (failures' # failures)]_vars
    /\ [](failed => failures > 0)
    /\ []((pc = "done" /\ ~failed /\ ~dryRun) => stateUploads = 1)

\* C12 witness: folder a and a/x are in the delete set, the folder went first,
\* the removal of a/x found no file, was reported completed, and the
\* deployment ended with the state file uploaded
C12_Witness ==
    /\ Completed
    /\ numWorkers > 0
    /\ FolderA \in Range(diffs.delete)
    /\ FileAX \in Range(diffs.delete)
    /\ completed[Op("delete", FileAX)] = 1
    /\ stateUploads = 1

(* --------------------------------------------------------------- C13 *)
\* C13: an operation of the main session that raised is the last operation
\* the main session issued, the error has reached the deployment boundary, and
\* unless the raising operation is the state file upload itself the state file
\* has not been uploaded.
C13_MainFailureAborts ==
    \A i \in 1..Len(mainLog) :
        ~mainLog[i].ok =>
            /\ i = Len(mainLog)
            /\ failed
            /\ pc \in {"stop", "done"}
            /\ mainLog[i].action # "state" => stateUploads = 0

\* C13 witness: a sequential deployment ended on an operation that raised,
\* after one that succeeded and with operations of the diff left undone
C13_Witness ==
    /\ numWorkers = 0
    /\ pc = "done"
    /\ failed
    /\ Len(mainLog) >= 2
    /\ mainLog[1].ok
    /\ ~Last(mainLog).ok
    /\ Last(mainLog).action # "state"
    /\ Len(mainLog) < Len(PhaseOrder)
    /\ stateUploads = 0

(* --------------------------------------------------------------- C15 *)
\* every batch of the parallel path has been passed to addTasks
AllBatchesAdded == numWorkers > 0 /\ pc \in {"wait", "state", "stop", "done"} /\ ~failed

\* C15: in parallel mode every file of the upload set other than the state
\* file is enqueued as an upload task exactly once, be it top-level, in a
\* folder of the upload set or in a folder that is not in the upload set.
C15_EveryUploadFileEnqueuedOnce ==
    /\ \A f \in Range(uploadFiles) : enqueued[Op("upload", f)] <= 1
    /\ AllBatchesAdded => \A f \in Range(uploadFiles) : enqueued[Op("upload", f)] = 1

\* the part of C15 that holds: top-level files and files of the folders of the
\* upload set are enqueued exactly once
C15_FilesOfUploadFoldersEnqueuedOnce ==
    /\ \A f \in Range(uploadFiles) : enqueued[Op("upload", f)] <= 1
    /\ AllBatchesAdded =>
        \A f \in Range(uploadFiles) :
            (IsTopLevel(f.name) \/ \E F \in Range(allFolders) : F.name = FolderNameOf(f.name))
                => enqueued[Op("upload", f)] = 1

(* --------------------------------------------------------------- C16 *)
\* this step ran processNextTask from addTasks or from a success report
DispatchAttempt == enqueued' # enqueued \/ completed' # completed

\* C16: after a dispatch attempt made by addTasks or by the handling of a
\* success report, the queue is empty or no worker is idle.
C16_DispatchUntilQueueOrIdleEmpty ==
    [][DispatchAttempt => ~(taskQueue' # <<>> /\ idleWorkers' # <<>>)]_vars

(* --------------------------------------------------------------- C17 *)
\* C17: no task is handed to a worker while a task appended before it (by
\* addTasks, or again at the tail after a failure) still waits: the queue
\* holds the waiting tasks oldest first and hands out the oldest.
C17_HandedInFifoOrder == ~outOfOrder /\ taskQueue = waiting

\* C17 witness: a task that failed was appended again behind a task added
\* later, both were handed out, and the failed task was executed after all
C17_Witness ==
    /\ TotalEnqueued >= 3
    /\ waiting = <<>>
    /\ \E t \in failedTasks : executed[t] = 1
    /\ \E t \in AllTasks \ failedTasks : executed[t] = 1 /\ completed[t] = 0

(* --------------------------------------------------------------- C18 *)
\* the trace entries of the tasks handed to a worker
WorkerEntries == {trace[i] : i \in {j \in 1..Len(trace) : trace[j].session # 0}}

\* the trace entries of the actions of the main session
MainEntries == {trace[i] : i \in {j \in 1..Len(trace) : trace[j].session = 0}}

\* C18: for every task handed to a worker the worker posts exactly one report,
\* taskCompleted or taskFailed, on every path through processTask, the path
\* where the proactive session refresh fails included.
C18_ExactlyOneReportPerTask ==
    \A e \in WorkerEntries :
        e.reports = 1 /\ e.report \in {"taskCompleted", "taskFailed"}

\* the part of C18 that holds: exactly one report on every path on which the
\* proactive refresh did not fail
C18_OneReportUnlessRefreshFails ==
    \A e \in WorkerEntries :
        \/ e.reports = 1 /\ e.report \in {"taskCompleted", "taskFailed"}
        \/ e.refreshed /\ e.execs = 0 /\ e.reports = 0

(* --------------------------------------------------------------- C19 *)
\* C19: a task whose execution failed with the not-connected error has had
\* exactly one re-establishment of the session after that failure, at most two
\* executions and one report; a task that met another error, or none, has had
\* no re-establishment after a failure and at most one execution.
C19_OneReconnectAndRetry ==
    \A e \in WorkerEntries :
        IF e.error = "Not connected"
        THEN e.reestablished = 1 /\ e.execs \in {1, 2} /\ e.reports = 1
        ELSE e.reestablished = 0 /\ e.execs <= 1

\* C19 witness: one task met the not-connected error, the session was
\* re-established, the second execution succeeded and taskCompleted was
\* posted; another met the error and the retry failed
C19_Witness ==
    /\ \E e \in WorkerEntries :
        /\ e.error = "Not connected"
        /\ e.reestablished = 1
        /\ e.execs = 2
        /\ e.report = "taskCompleted"
    /\ \E e \in WorkerEntries :
        /\ e.error = "Not connected"
        /\ e.execs = 2
        /\ e.report = "taskFailed"

(* --------------------------------------------------------------- C20 *)
\* C20: before an action a session, the main one or a worker's, was closed and
\* reopened exactly when it had last been connected or refreshed at least the
\* max age before.
C20_RefreshIffMaxAge ==
    \A i \in 1..Len(trace) :
        trace[i].refreshed <=> trace[i].age >= reconnectInterval

\* the part of C20 that holds: a worker session is refreshed exactly when it
\* has reached the max age, and the main session is never left unrefreshed
\* when it has
C20_WorkerRefreshIffMaxAge ==
    /\ \A e \in WorkerEntries : e.refreshed <=> e.age >= reconnectInterval
    /\ \A e \in MainEntries : e.age >= reconnectInterval => e.refreshed

(* --------------------------------------------------------------- C21 *)
\* the entry of a session refresh that could not establish the new session:
\* the action was never executed
RefreshFailed(e) == e.refreshed /\ e.execs = 0

\* C21: a session refresh that fails to establish the new session, on the
\* main session or on a worker session, gives its caller a failure value
\* without throwing and leaves the last-connected time unchanged; a refresh
\* that succeeds records the new last-connected time.
C21_RefreshFailureReturnsFailure ==
    [][trace' # trace =>
        LET e == Last(trace')
            s == e.session
        IN /\ RefreshFailed(e) =>
                /\ e.report # "thrown"
                /\ lastConnectionTime'[s] = lastConnectionTime[s]
           /\ (e.refreshed /\ ~RefreshFailed(e)) => lastConnectionTime'[s] = now]_vars

\* the part of C21 that holds: the refresh of a worker session returns false
\* without throwing, a failed refresh of either session leaves the
\* last-connected time unchanged and a successful one records the new time
C21_WorkerRefreshFailureReturnsFailure ==
    [][trace' # trace =>
        LET e == Last(trace')
            s == e.session
        IN /\ RefreshFailed(e) =>
                /\ s # 0 => e.report = "none"
                /\ lastConnectionTime'[s] = lastConnectionTime[s]
           /\ (e.refreshed /\ ~RefreshFailed(e)) => lastConnectionTime'[s] = now]_vars

(* --------------------------------------------------------------- C22 *)
\* C22: a createFolder that completes without error leaves the working
\* directory of the session where it was before the call, and a createFolder
\* in dry-run mode issues no remote command.
C22_CreateFolderRestoresDir ==
    [][(pc = "folder" /\ pc' = "done") =>
        /\ ~failed' => cwd'[0] = cwd[0]
        /\ dryRun => commands' = <<>>]_vars

\* the part of C22 that holds: the working directory is restored whenever the
\* first attempt of the descent went through, that is when as many levels
\* were descended as are then gone up; a dry run issues no command
C22_RestoresDirWithoutRetry ==
    [][(pc = "folder" /\ pc' = "done") =>
        LET down == Cardinality({i \in DOMAIN commands' : commands'[i].cmd = "CWD"})
            ups == Cardinality({i \in DOMAIN commands' : commands'[i].cmd = "CDUP"})
        IN /\ (~failed' /\ down = ups) => cwd'[0] = cwd[0]
           /\ dryRun => commands' = <<>> /\ cwd'[0] = cwd[0]]_vars

(* --------------------------------------------------------------- C23 *)
\* C23: the main context leaves the parallel application of a diff, after a
\* success or after an error, only through stop, and when stop completes no
\* worker is left and every worker whose session was up has acted on the exit
\* signal, closing its session, before it was terminated.
C23_StopClosesEverySession ==
    [][(numWorkers > 0 /\ pc # "done" /\ pc' = "done") =>
        /\ pc = "stop"
        /\ workers' = <<>>
        /\ \A w \in Range(workers) :
            wstatus[w] = "up" => w \in closedOnExit']_vars

\* the part of C23 that holds: stop is on every exit from the parallel
\* application of a diff, and when it completes every worker is terminated
C23_StopOnEveryExit ==
    [][(numWorkers > 0 /\ pc # "done" /\ pc' = "done") =>
        /\ pc = "stop"
        /\ workers' = <<>>
        /\ \A w \in WorkerIds : wstatus'[w] = "exited"]_vars

(* --------------------------------------------------------------- C24 *)
\* getServerFiles returns in this step
ServerFilesRead == pc = "serverfiles" /\ pc' = "start"

\* the diff is the one of a remote snapshot without entries
DiffOfEmptySnapshot == diffs = getDiffs(local, EmptyTree)

\* a step of getServerFiles failed in this step
ReadFailed == failures' > failures

RECURSIVE InFlightUpTo(_)
\* the tasks handed to the workers 1..w whose report the main context has
\* not handled yet
InFlightUpTo(w) == IF w = 0 THEN 0 ELSE inflight[w] + InFlightUpTo(w - 1)

InFlight == InFlightUpTo(MaxWorkers + 1)

\* the counter is the queue plus the tasks in flight
CounterIsQueuePlusInFlight ==
    /\ activeTasks >= 0
    /\ activeTasks = Len(taskQueue) + InFlight

\* the main context handles a report of this type in this step
ReportHandled(type) ==
    \E w \in WorkerIds :
        /\ wmsg[w] # <<>>
        /\ Head(wmsg[w]).type = type
        /\ wmsg'[w] = Tail(wmsg[w])

\* C25: in every state of the pool the active-task counter is not negative
\* and equals the length of the queue plus the number of tasks in flight on
\* workers; addTasks raises it by the size of the batch, a taskCompleted
\* report lowers it by one and a taskFailed report, which requeues the task,
\* leaves it as it is.
C25_CounterIsQueuePlusInFlight ==
    [][/\ CounterIsQueuePlusInFlight
       /\ CounterIsQueuePlusInFlight'
       /\ enqueued' # enqueued =>
            /\ activeTasks' = activeTasks + (TotalEnqueued' - TotalEnqueued)
            /\ Len(taskQueue') + InFlight' = Len(taskQueue) + InFlight
                                             + (TotalEnqueued' - TotalEnqueued)
       /\ ReportHandled("taskCompleted") => activeTasks' = activeTasks - 1
       /\ ReportHandled("taskFailed") =>
            /\ activeTasks' = activeTasks
            /\ Len(taskQueue') = Len(taskQueue) + 1]_vars

\* C25 witness: a batch was added, one task was completed, one was reported
\* failed and requeued, and tasks are in the queue and in flight
C25_Witness ==
    /\ pc \in {"pool", "poolwait"}
    /\ TotalEnqueued >= 3
    /\ \E t \in AllTasks : completed[t] > 0
    /\ failedTasks # {}
    /\ taskQueue # <<>>
    /\ InFlight > 0
    /\ activeTasks = Len(taskQueue) + InFlight

(* --------------------------------------------------------------- C26 *)
\* the entries of the actions that were executed on the remote
ExecutedEntries == {trace[i] : i \in {j \in 1..Len(trace) : trace[j].execs > 0}}

\* C26: every per-record operation, on the main session or on a worker
\* session, also after a refresh or a re-establishment of the session, is
\* executed in the configured remote root.
C26_ExecutedInRemoteRoot ==
    ~dryRun => \A e \in ExecutedEntries : e.dir = ServerPath

\* what holds instead: a session that has been connected by the worker, or
\* refreshed by the reconnect callback, executes in the login directory, and
\* the first action of the main session always follows a refresh
C26_ExecutedInLoginDir ==
    \A e \in ExecutedEntries : e.dir = LoginDir

(* --------------------------------------------------------------- C27 *)
\* the main session ends the removal of a folder in this step
MainRemovesFolder ==
    /\ Len(mainLog') = Len(mainLog) + 1
    /\ Last(mainLog').action = "delete"
    /\ Last(mainLog').record.type = "folder"

\* the files of the delete set inside the folder
DeleteFilesInside(folder) ==
    {r \in Range(diffs.delete) : r.type = "file" /\ IsPathPrefix(folder.name, r.name)}

\* the removal of the file has been done: in parallel mode its task was
\* reported completed, in sequential mode the main session removed it
FileRemoved(r) ==
    IF numWorkers > 0
    THEN completed[[action |-> "delete", record |-> r]] > 0
    ELSE \E i \in 1..Len(mainLog) :
            mainLog[i] = [action |-> "delete", record |-> r, ok |-> TRUE]

\* C27: in parallel mode as in sequential mode, the main session removes a
\* folder of the delete set only when every file of the delete set inside
\* that folder has been removed.
C27_FolderRemovedAfterItsFiles ==
    [][MainRemovesFolder =>
        \A r \in DeleteFilesInside(Last(mainLog').record) : FileRemoved(r)]_vars

\* the part of C27 that holds: the order in sequential mode
C27_SequentialFolderAfterItsFiles ==
    [][(numWorkers = 0 /\ MainRemovesFolder) =>
        \A r \in DeleteFilesInside(Last(mainLog').record) : FileRemoved(r)]_vars

(* --------------------------------------------------------------- C28 *)
\* the initial connection of worker w failed: its thread has exited and the
\* pool has not discarded it
NeverConnected(w) ==
    /\ w \in Range(workers)
    /\ wstatus[w] = "exited"
    /\ w \notin discarded

\* C28: a worker whose session could not be established at pool start is not
\* in the idle set, so no task is handed to it, none is lost to it and none
\* stays counted for it while waitForAllTasks waits.
C28_NoTaskToUnconnectedWorker ==
    \A w \in WorkerIds :
        NeverConnected(w) =>
            /\ w \notin Range(idleWorkers)
            /\ winbox[w] = <<>>
            /\ inflight[w] = 0

\* what happens instead: such a worker may hold a task that no other worker
\* will get, and waitForAllTasks then goes on waiting for it
C28_TaskOfUnconnectedWorkerBlocks ==
    \A w \in WorkerIds :
        (NeverConnected(w) /\ inflight[w] > 0) =>
            /\ waitForAllTasksPending(Pool)
            /\ pc # "returned"

====
